---- MODULE Spec2Model ----
(***************************************************************************)
(* A model of the cascade engine of SpreadingCascade:                      *)
(*   source/queue.c     the ring buffer (Queue)                            *)
(*   source/scascade.c  epidemic_new, epidemic_run and the driver's checks *)
(*                                                                         *)
(* Three specifications share the variables:                               *)
(*   Spec       one epidemic, built from an initial condition that obeys   *)
(*              the data model (non-empty list of distinct seeds in        *)
(*              [0,n)), run arc by arc by epidemic_run;                    *)
(*   SpecQueue  a Queue driven by arbitrary queue_new / queue_add /        *)
(*              queue_get calls;                                           *)
(*   SpecInput  main's parameter assertions followed by epidemic_new on    *)
(*              whatever seed list ic_import can hand over.                *)
(***************************************************************************)
EXTENDS Integers, Sequences, FiniteSets

VARIABLES
  g,         \* the graph: [n, degrees, links]                 (graph *g)
  ic,        \* the InitialCondition of this epidemic
  p,         \* neighbor infection probability, a fraction [num, den]
  output,    \* TRUE iff the trace FILE * is non-NULL
  pc,        \* where the program is: main / new / loop / arcs / done / abort / crash
             \* (SpecDriver, the running worker: also idle / head / clean / end)
  epidemic,  \* the Epidemic struct
  u, i, t,   \* the locals of epidemic_run
  trace,     \* the lines written to epidemic->output, as <<t, u, v, id>>
  pushed,    \* history: every element handed to queue_add on epidemic->active
  exit,      \* history: which return of epidemic_run was taken
  trials,    \* history: every trial of this run, as [t, u, v, ok]
  stream,    \* the outcomes the restarted PRNG gives the next trials (empty: any)
  ref,       \* SpecPermute: the result of the first run
  par,       \* SpecDriver: the parallel region of main, its workers, its records
  pick,      \* SpecRandomIC: the locals of ic_infect_randomly
  q,         \* SpecQueue: the Queue under test
  qpc,       \* SpecQueue: none / ok / abort / crash / corrupt
  cap,       \* SpecQueue: the size handed to queue_new
  held,      \* SpecQueue history: the elements added and not yet returned
  got,       \* SpecQueue: result of the latest queue_get
  expected   \* SpecQueue history: the oldest held element before that queue_get

vars == <<g, ic, p, output, pc, epidemic, u, i, t, trace, pushed, exit,
          trials, stream, ref, pick, par, q, qpc, cap, held, got, expected>>

evars == <<g, ic, p, output, pc, epidemic, u, i, t, trace, pushed, exit, trials>>

\* what the engine's own steps leave alone besides the Queue under test
others == <<stream, ref, pick, par>>
qvars == <<q, qpc, cap, held, got, expected>>

(***************************************************************************)
(* Bounds of the model.                                                    *)
(***************************************************************************)
MaxNodes == 3   \* node count of the generated graphs
MaxArcs  == 2   \* arc count of the generated graphs
MaxSeeds == 2   \* length of the generated seed lists
MaxBound == 2   \* largest generated stop bound
RandMax  == 1   \* rand() ranges over 0..RandMax
MaxTotal == 4   \* SpecRandomIC: largest total_nodes and num_infected
MaxThreads   == 2   \* SpecDriver: largest number of threads
MaxEpidemics == 2   \* SpecDriver: largest number of epidemics
MaxCap   == 3   \* SpecQueue: largest capacity asked of queue_new
MaxElem  == 1   \* SpecQueue: elements are 0..MaxElem

(***************************************************************************)
(* queue.c                                                                 *)
(***************************************************************************)
queue_empty(qq) == qq.begin = qq.end

queue_full(qq) == qq.begin = (qq.end + 1) % qq.size

\* Mutant: no spare slot, the ring of size slots holds size - 1 elements.
queue_new_NoSpare(size) ==
  [size  |-> size,
   begin |-> 0,
   end   |-> 0,
   nodes |-> [k \in 0..size |-> -1]]

\* malloc'ed storage is not initialised: -1 marks a slot never written.
queue_new(size) ==
  [size  |-> size + 1,
   begin |-> 0,
   end   |-> 0,
   nodes |-> [k \in 0..size |-> -1]]

\* Mutant: the element is stored after end has moved on.
queue_add_StoreLate(qq, e) ==
  [qq EXCEPT !.nodes[(qq.end + 1) % qq.size] = e,
             !.end = (qq.end + 1) % qq.size]

\* queue_add past its assertion
queue_add(qq, e) ==
  [qq EXCEPT !.nodes[qq.end] = e,
             !.end = (qq.end + 1) % qq.size]

\* queue_get past its assertion: the value returned and the queue left
queue_get_value(qq) == qq.nodes[qq.begin]

\* Mutant: the read position stays where it is.
queue_get_NoAdvance(qq) == qq

queue_get(qq) == [qq EXCEPT !.begin = (qq.begin + 1) % qq.size]

(***************************************************************************)
(* The inputs: graphs, initial conditions, probabilities.                  *)
(***************************************************************************)
Nodes(n) == 0..(n - 1)

RECURSIVE SortedSeq(_)
SortedSeq(S) ==
  IF S = {} THEN <<>>
  ELSE LET lo == CHOOSE x \in S : \A y \in S : x <= y
       IN  <<lo>> \o SortedSeq(S \ {lo})

\* The graph struct as the engine reads it: n, degrees[u], links[u][i].
\* links[u] is 1-indexed here, links[u][i] of the source is links[u][i+1].
GraphOf(n, lk) ==
  [n       |-> n,
   degrees |-> [x \in Nodes(n) |-> Len(lk[x])],
   links   |-> lk]

\* Every graph on MaxNodes nodes with at most MaxArcs arcs (self-loops
\* included), each adjacency list in ascending order.
GeneratedGraphs ==
  { GraphOf(MaxNodes,
            [x \in Nodes(MaxNodes) |-> SortedSeq({y \in Nodes(MaxNodes) : <<x, y>> \in A})]) :
      A \in { B \in SUBSET (Nodes(MaxNodes) \X Nodes(MaxNodes)) : Cardinality(B) <= MaxArcs } }

\* The graphs of the scenarios of the specification, section 8.
Line5 == GraphOf(5, [x \in Nodes(5) |-> IF x < 4 THEN <<x + 1>> ELSE <<>>])

Star5 == GraphOf(5, [x \in Nodes(5) |-> IF x = 0 THEN <<1, 2, 3, 4>> ELSE <<>>])

Triangle == GraphOf(3, [x \in Nodes(3) |-> IF x = 0 THEN <<1, 2>>
                                           ELSE IF x = 1 THEN <<2>> ELSE <<>>])

Pair == GraphOf(2, [x \in Nodes(2) |-> IF x = 0 THEN <<1>> ELSE <<>>])

\* More shapes: a single arc (above), a diamond (two parents of node 3 at the same step) and a
\* cycle with a self-loop and a chord.
Diamond == GraphOf(4, [x \in Nodes(4) |-> IF x = 0 THEN <<1, 2>>
                                          ELSE IF x = 3 THEN <<>> ELSE <<3>>])

Cycle3 == GraphOf(3, [x \in Nodes(3) |-> IF x = 0 THEN <<1>>
                                         ELSE IF x = 1 THEN <<1, 2>> ELSE <<0, 1>>])

NamedGraphs == {Pair, Line5, Star5, Triangle, Diamond, Cycle3}

\* InitialCondition, as ic_import and ic_import_bounds fill it.
InitialCondition(id, seeds, bound, stop) ==
  [id             |-> id,
   num_infected   |-> Len(seeds),
   infected       |-> seeds,
   bound          |-> bound,
   stop_criterion |-> stop]

Stopc == {"MaxTime", "NumInfected"}

\* Seed lists of the data model: non-empty, distinct, all in [0,n).
DistinctSeeds(n) ==
  { s \in UNION { [1..k -> Nodes(n)] : k \in 1..MaxSeeds } :
      \A a, b \in DOMAIN s : a # b => s[a] # s[b] }

\* p as a fraction; main admits 0 < p <= 1.
Fraction(num, den) == [num |-> num, den |-> den]

One == Fraction(1, 1)

ValidP == {Fraction(1, 2), One}

Config(gr, c, pr, out) == [g |-> gr, ic |-> c, p |-> pr, output |-> out]

Scenario1 == Config(Line5, InitialCondition(1, <<0>>, 2, "MaxTime"), One, TRUE)

Scenario2 == Config(Line5, InitialCondition(2, <<0>>, 100, "MaxTime"), One, TRUE)

Scenario3 == Config(Star5, InitialCondition(3, <<0>>, 3, "NumInfected"), One, TRUE)

Scenario4 == Config(Triangle, InitialCondition(4, <<0>>, 10, "MaxTime"), One, TRUE)

Scenarios == {Scenario1, Scenario2, Scenario3, Scenario4}

\* The scenarios are also run without a sink.
SilentScenarios == { [c EXCEPT !.output = FALSE] : c \in Scenarios }

TheConfig == Config(g, ic, p, output)

(***************************************************************************)
(* scascade.c: the Epidemic                                                *)
(***************************************************************************)
\* The struct before epidemic_new has filled it.
NoEpidemic ==
  [id |-> 0, t |-> 0, num_infected |-> 0, cascade_links |-> 0, bound |-> 0,
   stop_criterion |-> "MaxTime", p |-> Fraction(0, 1),
   infected |-> <<>>, active |-> queue_new(0)]

\* epidemic_new, lines 75-89: the fields before the seed loop.
EpidemicFields(pr, gr, c) ==
  [id             |-> c.id,
   t              |-> 1,
   num_infected   |-> c.num_infected,
   cascade_links  |-> 0,
   bound          |-> c.bound,
   stop_criterion |-> c.stop_criterion,
   p              |-> pr,
   infected       |-> [x \in Nodes(gr.n) |-> 0],
   active         |-> queue_new(gr.n)]

\* epidemic_new, lines 90-93: the seed loop from index k on. r carries the
\* struct, the elements pushed, and how the loop is going ("loop" = fine).
\* A seed outside [0,n) makes line 92 write outside the array: undefined
\* behaviour, whose outcome oob is either a crash or a write that lands in
\* other memory and leaves infected[] as it was.
RECURSIVE SeedLoop(_, _, _, _)
SeedLoop(r, c, k, oob) ==
  IF k > c.num_infected \/ r.pc # "loop" THEN r
  ELSE LET s == c.infected[k]
       IN  IF queue_full(r.e.active)
           THEN [r EXCEPT !.pc = "abort"]
           ELSE LET added == [r EXCEPT !.e.active = queue_add(r.e.active, s),
                                       !.pushed = Append(r.pushed, s)]
                IN  IF s \in DOMAIN r.e.infected
                    THEN SeedLoop([added EXCEPT !.e.infected[s] = 1], c, k + 1, oob)
                    ELSE IF oob = "crash"
                         THEN [added EXCEPT !.pc = "crash"]
                         ELSE SeedLoop(added, c, k + 1, oob)

\* Mutant: the seed loop starts at the second seed.
epidemic_new_FromSecond(pr, gr, c, oob) ==
  SeedLoop([e |-> EpidemicFields(pr, gr, c), pushed |-> <<>>, pc |-> "loop"], c, 2, oob)

epidemic_new(pr, gr, c, oob) ==
  SeedLoop([e |-> EpidemicFields(pr, gr, c), pushed |-> <<>>, pc |-> "loop"], c, 1, oob)

\* line 119: (double)rand() <= (double)RAND_MAX * p, for rand() = r
Success(r, pr) == r * pr.den <= RandMax * pr.num

\* Mutant: the run stops one step early.
MaxDepthExit_Early(e, tt) == e.stop_criterion = "MaxTime" /\ e.bound <= tt

\* line 115
MaxDepthExit(e, tt) == e.stop_criterion = "MaxTime" /\ e.bound < tt

\* Mutant: a seed (time 1) is taken for a susceptible node.
NotInfected_SeedsToo(e, v) == e.infected[v] <= 1

\* line 120
NotInfected(e, v) == e.infected[v] = 0

\* Mutant: the new infection is not counted.
FirstInfection_NoCount(e, v, tt) ==
  [e EXCEPT !.infected[v]   = tt + 1,
            !.cascade_links = e.cascade_links + 1,
            !.t             = tt]

\* lines 121, 123-125 (line 122, the push, is done by the caller)
FirstInfection(e, v, tt) ==
  [e EXCEPT !.infected[v]   = tt + 1,
            !.num_infected  = e.num_infected + 1,
            !.cascade_links = e.cascade_links + 1,
            !.t             = tt]

\* Mutant: the bound is compared with the new infections only.
MaxSizeExit_NewOnly(e) == e.stop_criterion = "NumInfected" /\ e.bound + 1 = e.num_infected

\* line 126
MaxSizeExit(e) == e.stop_criterion = "NumInfected" /\ e.bound = e.num_infected

\* Mutant: a target infected at the provider's own step counts as well.
CoInfection_SameStep(e, v, tt) == e.infected[v] = tt + 1 \/ e.infected[v] = tt

\* line 131
CoInfection(e, v, tt) == e.infected[v] = tt + 1

\* rand() after the PRNG was restarted as for an earlier run: the k-th trial
\* has the outcome the k-th trial had then; past that, and with no earlier
\* run, any outcome.
Replays(done, prescribed, ok) ==
  Len(done) < Len(prescribed) => ok = prescribed[Len(done) + 1]

\* Mutant: the test of the sink is inverted.
Emit_Inverted(tr, out, tt, uu, v, id) == IF ~out THEN Append(tr, <<tt, uu, v, id>>) ELSE tr

\* Mutant: the line goes to the head of the file.
Emit_AtHead(tr, out, tt, uu, v, id) == IF out THEN <<<<tt, uu, v, id>>>> \o tr ELSE tr

\* lines 127-128 and 133-134: one line on the trace, if there is a trace
Emit(tr, out, tt, uu, v, id) == IF out THEN Append(tr, <<tt, uu, v, id>>) ELSE tr

(***************************************************************************)
(* Spec: one epidemic, from epidemic_new to the return of epidemic_run.    *)
(***************************************************************************)
QueueIdle ==
  /\ q = queue_new(0)
  /\ qpc = "none"
  /\ cap = 0
  /\ held = <<>>
  /\ got = -1
  /\ expected = -1

\* No replay, no comparison, no random seeding under way.
NoRef == [phase |-> "none"]

NoPick == [pc |-> "none"]

NoPar == [phase |-> "none"]

Quiet ==
  /\ stream = <<>>
  /\ ref = NoRef
  /\ pick = NoPick
  /\ par = NoPar

Unbuilt ==
  /\ epidemic = NoEpidemic
  /\ u = 0 /\ i = 0 /\ t = 0
  /\ trace = <<>>
  /\ pushed = <<>>
  /\ exit = "none"
  /\ trials = <<>>

\* Every generated or named graph with every seed list of the data model,
\* either stop rule, every bound in 1..MaxBound and every p; or a scenario.
Init ==
  /\ \/ \E gr \in GeneratedGraphs \cup NamedGraphs :
          \E s \in DistinctSeeds(gr.n), b \in 1..MaxBound, st \in Stopc, pr \in ValidP :
            /\ g = gr
            /\ ic = InitialCondition(1, s, b, st)
            /\ p = pr
            /\ output = TRUE
     \/ \E c \in Scenarios \cup SilentScenarios :
            /\ g = c.g
            /\ ic = c.ic
            /\ p = c.p
            /\ output = c.output
  /\ pc = "new"
  /\ Unbuilt
  /\ QueueIdle
  /\ Quiet

\* main, line 411: epidemic = epidemic_new(p, g, ic+j, epidemic_output)
EpidemicNew ==
  /\ pc = "new"
  /\ \E oob \in {"crash", "miss"} :
       LET r == epidemic_new(p, g, ic, oob)
       IN  /\ epidemic' = r.e
           /\ pushed' = r.pushed
           /\ pc' = r.pc
  /\ UNCHANGED <<g, ic, p, output, u, i, t, trace, exit, trials>>
  /\ UNCHANGED qvars
  /\ UNCHANGED others

\* epidemic_run, lines 112-117: the while test, the dequeue, the MaxTime
\* return, and the entry of the for loop.
RunPop ==
  /\ pc = "loop"
  /\ IF queue_empty(epidemic.active)
     THEN /\ pc' = "done"
          /\ exit' = "empty"
          /\ UNCHANGED <<epidemic, u, i, t>>
     ELSE LET uu == queue_get_value(epidemic.active)
              tt == epidemic.infected[uu]
          IN  /\ epidemic' = [epidemic EXCEPT !.active = queue_get(epidemic.active)]
              /\ u' = uu
              /\ t' = tt
              /\ IF MaxDepthExit(epidemic, tt)
                 THEN /\ pc' = "done"
                      /\ exit' = "maxdepth"
                      /\ i' = i
                 ELSE /\ pc' = IF 0 < g.degrees[uu] THEN "arcs" ELSE "loop"
                      /\ exit' = exit
                      /\ i' = 0
  /\ UNCHANGED <<g, ic, p, output, trace, pushed, trials>>
  /\ UNCHANGED qvars
  /\ UNCHANGED others

\* epidemic_run, lines 117-136: one turn of the for loop, the arc u -> links[u][i].
RunTrial ==
  /\ pc = "arcs"
  /\ \E r \in 0..RandMax :
       LET v    == g.links[u][i + 1]
           next == IF i + 1 < g.degrees[u] THEN "arcs" ELSE "loop"
       IN  /\ Replays(trials, stream, Success(r, epidemic.p))
           /\ trials' = Append(trials, [t |-> t, u |-> u, v |-> v,
                                        ok |-> Success(r, epidemic.p)])
           /\ IF ~Success(r, epidemic.p)
              THEN /\ pc' = next
                   /\ UNCHANGED <<epidemic, trace, pushed, exit>>
              ELSE IF NotInfected(epidemic, v)
              THEN LET e1 == FirstInfection(epidemic, v, t)
                   IN  IF queue_full(epidemic.active)
                       THEN \* the assertion of queue_add fails after line 121
                            /\ epidemic' = [epidemic EXCEPT !.infected[v] = t + 1]
                            /\ pc' = "abort"
                            /\ UNCHANGED <<trace, pushed, exit>>
                       ELSE /\ epidemic' = [e1 EXCEPT !.active = queue_add(epidemic.active, v)]
                            /\ pushed' = Append(pushed, v)
                            /\ trace' = Emit(trace, output, t, u, v, epidemic.id)
                            /\ IF MaxSizeExit(e1)
                               THEN pc' = "done" /\ exit' = "maxsize"
                               ELSE pc' = next /\ exit' = exit
              ELSE /\ epidemic' = IF CoInfection(epidemic, v, t)
                                  THEN [epidemic EXCEPT !.cascade_links = epidemic.cascade_links + 1]
                                  ELSE epidemic
                   /\ trace' = Emit(trace, output, t, u, v, epidemic.id)
                   /\ pc' = next
                   /\ UNCHANGED <<pushed, exit>>
  /\ i' = i + 1
  /\ UNCHANGED <<g, ic, p, output, u, t>>
  /\ UNCHANGED qvars
  /\ UNCHANGED others

Next ==
  \/ EpidemicNew
  \/ RunPop
  \/ RunTrial

Spec == Init /\ [][Next]_vars

(***************************************************************************)
(* SpecQueue: a Queue under arbitrary calls.                               *)
(***************************************************************************)
EngineIdle ==
  /\ g = GraphOf(0, <<>>)
  /\ ic = InitialCondition(0, <<>>, 0, "MaxTime")
  /\ p = Fraction(0, 1)
  /\ output = FALSE
  /\ pc = "idle"
  /\ Unbuilt

InitQueue == EngineIdle /\ QueueIdle /\ Quiet

\* queue_new(size). For size = -1 the storage is malloc(0), which may be NULL
\* (the assertion of line 19 fails) or not.
QueueNew ==
  /\ qpc = "none"
  /\ \E size \in (0 - 1)..MaxCap, null \in BOOLEAN :
       /\ cap' = size
       /\ IF size + 1 = 0 /\ null
          THEN qpc' = "abort" /\ q' = q
          ELSE qpc' = "ok" /\ q' = queue_new(size)
  /\ UNCHANGED <<held, got, expected>>
  /\ UNCHANGED evars
  /\ UNCHANGED others

\* queue_add(q, e). With q->size = 0 the test of line 32 divides by zero:
\* the process traps, or goes on to fail the assertion or to write outside
\* the storage.
QueueAdd ==
  /\ qpc = "ok"
  /\ \E e \in 0..MaxElem, ub \in {"crash", "abort", "corrupt"} :
       IF q.size = 0
       THEN qpc' = ub /\ UNCHANGED <<q, held>>
       ELSE IF queue_full(q)
       THEN qpc' = "abort" /\ UNCHANGED <<q, held>>
       ELSE /\ q' = queue_add(q, e)
            /\ held' = Append(held, e)
            /\ qpc' = qpc
  /\ UNCHANGED <<cap, got, expected>>
  /\ UNCHANGED evars
  /\ UNCHANGED others

\* queue_get(q). Line 39 reads nodes[begin] before the assertion; the value
\* is dropped when the assertion fails, but with no storage (size 0) the read
\* itself is outside the allocation.
QueueGet ==
  /\ qpc = "ok"
  /\ \E ub \in {"crash", "abort"} :
       IF queue_empty(q)
       THEN /\ qpc' = IF q.size = 0 THEN ub ELSE "abort"
            /\ UNCHANGED <<q, held, got, expected>>
       ELSE /\ got' = queue_get_value(q)
            /\ q' = queue_get(q)
            /\ expected' = IF held = <<>> THEN -1 ELSE Head(held)
            /\ held' = IF held = <<>> THEN held ELSE Tail(held)
            /\ qpc' = qpc
  /\ cap' = cap
  /\ UNCHANGED evars
  /\ UNCHANGED others

NextQueue ==
  \/ QueueNew
  \/ QueueAdd
  \/ QueueGet

SpecQueue == InitQueue /\ [][NextQueue]_vars

(***************************************************************************)
(* SpecInput: main's assertions on the parameters, then epidemic_new on    *)
(* an initial condition as ic_import reads it: num_infected > 0 integers,  *)
(* not checked against the graph nor against each other.                   *)
(***************************************************************************)
InputGraphs == {Pair, Triangle}

\* atof accepts any number
AnyP == ValidP \cup {Fraction(0, 1), Fraction(3, 2)}

AnySeeds(n) == UNION { [1..k -> (0 - 1)..n] : k \in 1..(MaxSeeds + 1) }

InitInput ==
  /\ \E gr \in InputGraphs :
       \E s \in AnySeeds(gr.n), b \in 1..MaxBound, st \in Stopc, pr \in AnyP :
         /\ g = gr
         /\ ic = InitialCondition(1, s, b, st)
         /\ p = pr
         /\ output = TRUE
  /\ pc = "main"
  /\ Unbuilt
  /\ QueueIdle
  /\ Quiet

\* main, line 323: assert(p > 0.0 && p <= 1.0)
MainAssert ==
  /\ pc = "main"
  /\ pc' = IF 0 < p.num /\ p.num <= p.den THEN "new" ELSE "abort"
  /\ UNCHANGED <<g, ic, p, output, epidemic, u, i, t, trace, pushed, exit, trials>>
  /\ UNCHANGED qvars
  /\ UNCHANGED others

NextInput ==
  \/ MainAssert
  \/ EpidemicNew

SpecInput == InitInput /\ [][NextInput]_vars

(***************************************************************************)
(* SpecPermute: the same epidemic run twice, the second time with its      *)
(* seeds in another order and rand() restarted on the same values.         *)
(***************************************************************************)
\* The seed lists 0, 1, .., m-1 of two seeds or more. The generated graphs
\* are all the graphs on their nodes, so every seed list is one of these up
\* to the names of the nodes.
FirstSeeds == { [k \in 1..m |-> k - 1] : m \in 2..MaxSeeds }

\* The other orders of the seed list s.
Reordered(s) ==
  { r \in [DOMAIN s -> { s[k] : k \in DOMAIN s }] :
      /\ \A a, b \in DOMAIN s : a # b => r[a] # r[b]
      /\ r # s }

\* The outcomes of the trials of a run, in order.
Outcomes(tr) == [k \in 1..Len(tr) |-> tr[k].ok]

InitPermute ==
  /\ \E gr \in GeneratedGraphs :
       \E s \in FirstSeeds, b \in 1..MaxBound, st \in Stopc, pr \in ValidP :
         /\ g = gr
         /\ ic = InitialCondition(1, s, b, st)
         /\ p = pr
         /\ output = TRUE
  /\ pc = "new"
  /\ Unbuilt
  /\ QueueIdle
  /\ Quiet

\* The first run has returned: its result is kept in ref, its outcomes become
\* the stream the second run replays (srand with the same seed, line 330),
\* and the initial condition is read again with its seeds in another order.
Restart ==
  /\ pc = "done"
  /\ ref = NoRef
  /\ \E s \in Reordered(ic.infected) : ic' = [ic EXCEPT !.infected = s]
  /\ ref' = [phase        |-> "second",
             infected     |-> epidemic.infected,
             num_infected |-> epidemic.num_infected,
             trace        |-> trace]
  /\ stream' = Outcomes(trials)
  /\ pc' = "new"
  /\ epidemic' = NoEpidemic
  /\ u' = 0 /\ i' = 0 /\ t' = 0
  /\ trace' = <<>>
  /\ pushed' = <<>>
  /\ exit' = "none"
  /\ trials' = <<>>
  /\ UNCHANGED <<g, p, output, pick, par>>
  /\ UNCHANGED qvars

NextPermute ==
  \/ EpidemicNew
  \/ RunPop
  \/ RunTrial
  \/ Restart

SpecPermute == InitPermute /\ [][NextPermute]_vars

(***************************************************************************)
(* SpecRandomIC: ic_import filling one initial condition at random.        *)
(***************************************************************************)
\* ic_init, lines 143-147: num_infected and a zeroed array of that length.
ic_init(c, n) ==
  [c EXCEPT !.num_infected = n, !.infected = [k \in 1..n |-> 0]]

\* ic_import, lines 223-228, up to the call of ic_infect_randomly: the line
\* read has num_infected > 0, and total_nodes is what the caller passes.
InitRandomIC ==
  /\ \E n \in 1..MaxTotal, num \in 1..MaxTotal :
       /\ ic = ic_init(InitialCondition(1, <<>>, 0, "MaxTime"), num)
       /\ pick = [pc |-> "enter", total_nodes |-> n]
  /\ g = GraphOf(0, <<>>)
  /\ p = Fraction(0, 1)
  /\ output = FALSE
  /\ pc = "idle"
  /\ Unbuilt
  /\ QueueIdle
  /\ stream = <<>>
  /\ ref = NoRef
  /\ par = NoPar

\* line 182
MarksToDraw(num_infected, total_nodes) ==
  IF num_infected <= total_nodes \div 2 THEN num_infected ELSE total_nodes - num_infected

\* lines 192-193: the test of the copy loop, for a node whose mark is mark
WrittenOut(num_infected, total_nodes, mark) ==
  IF num_infected < total_nodes \div 2
  THEN mark = 1
  ELSE num_infected > total_nodes \div 2 /\ mark = 0

\* ic_infect_randomly, lines 176-182: the marks, the assertion, k.
PickEnter ==
  /\ pick.pc = "enter"
  /\ pick' = IF ic.num_infected < pick.total_nodes
             THEN [pc          |-> "draw",
                   total_nodes |-> pick.total_nodes,
                   infected    |-> [x \in Nodes(pick.total_nodes) |-> 0],
                   k           |-> MarksToDraw(ic.num_infected, pick.total_nodes),
                   i           |-> 0,
                   v           |-> 0]
             ELSE [pc |-> "abort", total_nodes |-> pick.total_nodes]
  /\ UNCHANGED <<stream, ref, par>>
  /\ UNCHANGED evars
  /\ UNCHANGED qvars

\* lines 183-188: one draw; a marked node is drawn again, an unmarked one is
\* marked and ends this turn of the for loop.
PickDraw ==
  /\ pick.pc = "draw"
  /\ \E r \in Nodes(pick.total_nodes) :
       pick' = IF pick.infected[r] = 1
               THEN [pick EXCEPT !.v = r]
               ELSE IF pick.i + 1 < pick.k
               THEN [pick EXCEPT !.v = r, !.infected[r] = 1, !.i = pick.i + 1]
               ELSE [pick EXCEPT !.v = 0, !.infected[r] = 1, !.i = 0, !.pc = "fill"]
  /\ UNCHANGED <<stream, ref, par>>
  /\ UNCHANGED evars
  /\ UNCHANGED qvars

\* lines 190-196: one turn of the copy loop, or its end and the return.
PickFill ==
  /\ pick.pc = "fill"
  /\ IF pick.v < pick.total_nodes
     THEN IF WrittenOut(ic.num_infected, pick.total_nodes, pick.infected[pick.v])
          THEN /\ ic' = [ic EXCEPT !.infected[pick.i + 1] = pick.v]
               /\ pick' = [pick EXCEPT !.i = pick.i + 1, !.v = pick.v + 1]
          ELSE /\ ic' = ic
               /\ pick' = [pick EXCEPT !.v = pick.v + 1]
     ELSE /\ ic' = ic
          /\ pick' = [pick EXCEPT !.pc = "done"]
  /\ UNCHANGED <<stream, ref, par>>
  /\ UNCHANGED <<g, p, output, pc, epidemic, u, i, t, trace, pushed, exit, trials>>
  /\ UNCHANGED qvars

NextRandomIC ==
  \/ PickEnter
  \/ PickDraw
  \/ PickFill

SpecRandomIC == InitRandomIC /\ [][NextRandomIC]_vars

(***************************************************************************)
(* SpecDriver: the parallel region of main, lines 393-442. One worker runs *)
(* at a time on the variables of the engine; the others are parked in      *)
(* par.saved. A step of the engine is one step of the running worker, and  *)
(* a line written by fprintf is one step: stdio locks the FILE for the     *)
(* length of the call.                                                     *)
(***************************************************************************)
\* private(tid, epidemic, i, j), line 395, and the locals of epidemic_run, of
\* a worker that holds no epidemic.
Parked(wpc) ==
  [pc |-> wpc, epidemic |-> NoEpidemic, u |-> 0, i |-> 0, t |-> 0,
   pushed |-> <<>>, exit |-> "none", trials |-> <<>>]

\* ic_clean, lines 152-158: the seeds are freed, NULL is the empty list.
ic_clean(c) == [c EXCEPT !.infected = <<>>, !.num_infected = 0]

\* Mutant: a chunk starts on the last index of the chunk before.
NextChunk_Overlap(nextj, c) ==
  [lo |-> IF nextj > 0 THEN nextj - 1 ELSE 0, hi |-> nextj + c]

\* line 402, schedule(guided): the next c indices not yet handed out.
NextChunk(nextj, c) ==
  [lo |-> nextj, hi |-> nextj + c]

\* Mutant: t is one variable for all the calls (static).
LocalStep_Static(saved, shared) == shared

\* line 110: t is a local of the call of epidemic_run, so of the worker.
LocalStep(saved, shared) == saved

\* lines 127-128 and 133-134: the lines a run with these trials has written.
RecordsOf(tr, id) ==
  LET ok == SelectSeq(tr, LAMBDA x : x.ok)
  IN  [k \in 1..Len(ok) |-> <<ok[k].t, ok[k].u, ok[k].v, id>>]

NoResult == [done |-> FALSE]

\* The graph of the region: the line 0 -> 1 -> 2.
Line3 == GraphOf(3, [x \in Nodes(3) |-> IF x < 2 THEN <<x + 1>> ELSE <<>>])

\* The list of initial conditions: ids 1, 2, ..; seed 0 or 1; one stop rule
\* for all (line 353-365) with the bound 2.
DriverInput(E, st) ==
  [j \in 1..E |-> InitialCondition(j, <<(j - 1) % 2>>, 2, st)]

\* The element ic + j, if there is one.
IcAt(j) ==
  IF j + 1 \in DOMAIN par.ics THEN par.ics[j + 1]
  ELSE InitialCondition(0, <<>>, 0, "MaxTime")

InitDriver ==
  /\ \E W \in 1..MaxThreads, E \in 1..MaxEpidemics, st \in Stopc, pr \in ValidP :
       /\ p = pr
       /\ par = [phase   |-> "region",
                 threads |-> W,
                 cur     |-> 1,
                 ics     |-> DriverInput(E, st),
                 input   |-> DriverInput(E, st),
                 nextj   |-> 0,
                 j       |-> [w \in 1..W |-> 0],
                 hi      |-> [w \in 1..W |-> 0],
                 saved   |-> [w \in 1..W |-> Parked(IF w = 1 THEN "run" ELSE "idle")],
                 runs    |-> [k \in 1..E |-> 0],
                 cleaned |-> [k \in 1..E |-> 0],
                 result  |-> [k \in 1..E |-> NoResult],
                 sink    |-> <<>>,
                 solo    |-> 0]
       /\ ic = DriverInput(E, st)[1]
  /\ g = Line3
  /\ output = TRUE
  /\ pc = "idle"
  /\ Unbuilt
  /\ QueueIdle
  /\ stream = <<>>
  /\ ref = NoRef
  /\ pick = NoPick

\* line 402: the worker asks for its next chunk of indices; with none left
\* it waits at the barrier that ends the loop.
Grab ==
  /\ par.phase = "region"
  /\ pc = "idle"
  /\ IF par.nextj < Len(par.ics)
     THEN \E c \in 1..(Len(par.ics) - par.nextj) :
            /\ par' = [par EXCEPT !.j[par.cur]  = NextChunk(par.nextj, c).lo,
                                  !.hi[par.cur] = NextChunk(par.nextj, c).hi,
                                  !.nextj       = par.nextj + c]
            /\ ic' = par.ics[NextChunk(par.nextj, c).lo + 1]
            /\ pc' = "head"
     ELSE /\ par' = par
          /\ ic' = ic
          /\ pc' = "end"
  /\ UNCHANGED <<g, p, output, epidemic, u, i, t, trace, pushed, exit, trials>>
  /\ UNCHANGED <<stream, ref, pick>>
  /\ UNCHANGED qvars

\* lines 404-410: the body of the loop starts on index j; the status line
\* reads ic[j].id, and the one sample is about to be built.
LoopHead ==
  /\ par.phase = "region"
  /\ pc = "head"
  /\ par' = [par EXCEPT !.runs[par.j[par.cur] + 1] = @ + 1]
  /\ pc' = "new"
  /\ UNCHANGED <<g, ic, p, output, epidemic, u, i, t, trace, pushed, exit, trials>>
  /\ UNCHANGED <<stream, ref, pick>>
  /\ UNCHANGED qvars

\* lines 423-435: epidemic_run has returned; the sink is flushed, the status
\* line is written from the struct, and the struct is destroyed.
Finish ==
  /\ par.phase = "region"
  /\ pc = "done"
  /\ par' = [par EXCEPT !.result[par.j[par.cur] + 1] =
               [done          |-> TRUE,
                infected      |-> epidemic.infected,
                num_infected  |-> epidemic.num_infected,
                cascade_links |-> epidemic.cascade_links,
                t             |-> epidemic.t,
                emitted       |-> IF output THEN RecordsOf(trials, epidemic.id) ELSE <<>>,
                outcomes      |-> Outcomes(trials)]]
  /\ pc' = "clean"
  /\ epidemic' = NoEpidemic
  /\ u' = 0 /\ i' = 0 /\ t' = 0
  /\ pushed' = <<>>
  /\ exit' = "none"
  /\ trials' = <<>>
  /\ UNCHANGED <<g, ic, p, output, trace>>
  /\ UNCHANGED <<stream, ref, pick>>
  /\ UNCHANGED qvars

\* line 437 and the j++ of line 404: ic_clean(ic + j), then the next index of
\* the chunk, or the chunk is done (j and its limit are dead until the next
\* chunk, and are kept at 0).
Clean ==
  /\ par.phase = "region"
  /\ pc = "clean"
  /\ IF par.j[par.cur] + 1 < par.hi[par.cur]
     THEN /\ par' = [par EXCEPT !.ics[par.j[par.cur] + 1]     = ic_clean(@),
                                !.cleaned[par.j[par.cur] + 1] = @ + 1,
                                !.j[par.cur]                  = @ + 1]
          /\ pc' = "head"
          /\ ic' = par.ics[par.j[par.cur] + 2]
     ELSE /\ par' = [par EXCEPT !.ics[par.j[par.cur] + 1]     = ic_clean(@),
                                !.cleaned[par.j[par.cur] + 1] = @ + 1,
                                !.j[par.cur]                  = 0,
                                !.hi[par.cur]                 = 0]
          /\ pc' = "idle"
          /\ ic' = IF par.j[par.cur] = 0 THEN ic_clean(ic) ELSE par.ics[1]
  /\ UNCHANGED <<g, p, output, epidemic, u, i, t, trace, pushed, exit, trials>>
  /\ UNCHANGED <<stream, ref, pick>>
  /\ UNCHANGED qvars

\* The running worker is preempted and worker w, not yet at the barrier, runs
\* on: its private variables come back, and ic is the element of the shared
\* array its j points to. The sink is shared (line 396) and stays.
Switch ==
  /\ par.phase = "region"
  /\ \E w \in (1..par.threads) \ {par.cur} :
       /\ par.saved[w].pc # "end"
       /\ par' = [par EXCEPT !.cur = w,
                             !.saved[par.cur] =
                                [pc |-> pc, epidemic |-> epidemic, u |-> u, i |-> i,
                                 t |-> t, pushed |-> pushed, exit |-> exit,
                                 trials |-> trials],
                             !.saved[w] = Parked("run")]
       /\ pc' = par.saved[w].pc
       /\ epidemic' = par.saved[w].epidemic
       /\ u' = par.saved[w].u
       /\ i' = par.saved[w].i
       /\ t' = LocalStep(par.saved[w].t, t)
       /\ pushed' = par.saved[w].pushed
       /\ exit' = par.saved[w].exit
       /\ trials' = par.saved[w].trials
       /\ ic' = IcAt(par.j[w])
  /\ UNCHANGED <<g, p, output, trace>>
  /\ UNCHANGED <<stream, ref, pick>>
  /\ UNCHANGED qvars

\* The position of worker w.
WorkerPc(w) == IF w = par.cur THEN pc ELSE par.saved[w].pc

\* lines 439-442: the region ends when every worker is at its end (the
\* barrier of the parallel region); then main closes the sink.
Close ==
  /\ par.phase = "region"
  /\ \A w \in 1..par.threads : WorkerPc(w) = "end"
  /\ par' = [par EXCEPT !.phase = "closed", !.sink = trace]
  /\ UNCHANGED evars
  /\ UNCHANGED <<stream, ref, pick>>
  /\ UNCHANGED qvars

\* The comparison run: the program is run again on epidemic j alone, one
\* thread, a new sink, rand() giving the outcomes that j consumed before.
Solo ==
  /\ par.phase = "closed"
  /\ \E j \in DOMAIN par.input :
       /\ par' = [par EXCEPT !.phase = "solo", !.solo = j]
       /\ ic' = par.input[j]
       /\ stream' = par.result[j].outcomes
  /\ pc' = "new"
  /\ trace' = <<>>
  /\ t' = 0
  /\ UNCHANGED <<g, p, output, epidemic, u, i, pushed, exit, trials>>
  /\ UNCHANGED <<ref, pick>>
  /\ UNCHANGED qvars

NextDriver ==
  \/ Grab
  \/ LoopHead
  \/ EpidemicNew
  \/ RunPop
  \/ RunTrial
  \/ Finish
  \/ Clean
  \/ Switch
  \/ Close
  \/ Solo

SpecDriver == InitDriver /\ [][NextDriver]_vars

(***************************************************************************)
(* Properties.                                                             *)
(***************************************************************************)
\* The Epidemic exists: epidemic_new has returned it.
Built == pc \in {"loop", "arcs", "done"}

InfectedNodes == { v \in DOMAIN epidemic.infected : epidemic.infected[v] > 0 }

Times(seq, x) == Cardinality({ k \in DOMAIN seq : seq[k] = x })

SeedSet == { ic.infected[k] : k \in DOMAIN ic.infected }

\* The nodes within k arcs of the set S.
RECURSIVE Within(_, _, _)
Within(gr, S, k) ==
  IF k = 0 THEN S
  ELSE LET W == Within(gr, S, k - 1)
       IN  W \cup { y \in Nodes(gr.n) :
                      \E x \in W : \E j \in 1..gr.degrees[x] : gr.links[x][j] = y }

\* The length of a shortest path from S to a reachable v.
Dist(gr, S, v) ==
  CHOOSE k \in 0..gr.n :
    /\ v \in Within(gr, S, k)
    /\ \A j \in 0..(k - 1) : v \notin Within(gr, S, j)

\* C1: with distinct in-range seeds, num_infected is the number of nodes
\* with infected[v] > 0 once the epidemic is built, after every processed
\* arc and at the return of epidemic_run.
NumInfectedIsCount ==
  Built => epidemic.num_infected = Cardinality(InfectedNodes)

NumInfectedIsCountWitness ==
  /\ pc = "done"
  /\ epidemic.num_infected = g.n
  /\ ic.num_infected < g.n

\* C2: every node is handed to queue_add at most once, and infected[v] > 0
\* holds exactly for the nodes that were.
EnqueuedOnceIffInfected ==
  Built =>
    /\ \A k \in DOMAIN pushed : pushed[k] \in Nodes(g.n)
    /\ \A v \in Nodes(g.n) :
         /\ Times(pushed, v) <= 1
         /\ epidemic.infected[v] > 0 <=> Times(pushed, v) = 1

EnqueuedOnceWitness ==
  /\ pc = "done"
  /\ Len(pushed) > ic.num_infected
  /\ Len(trace) > Len(pushed)

\* C3: no queue_add on epidemic->active finds the queue full (the run never
\* stops on the assertion of line 32 of queue.c), and queue_get is reached
\* only behind the queue_empty test of the while loop.
ActiveAcceptsEveryPush ==
  /\ pc # "abort"
  /\ Built => Len(pushed) <= g.n

ActiveFullWitness ==
  /\ Built
  /\ Len(pushed) = g.n
  /\ epidemic.active.end = g.n

\* C4: on a queue of capacity c >= 1, under calls that respect the
\* preconditions, queue_get returns the oldest element held, queue_empty is
\* true exactly when nothing is held and queue_full exactly when c elements
\* are; the ring from begin to end is the elements held, oldest first.
RingContents ==
  [k \in 1..((q.end - q.begin + q.size) % q.size) |->
     q.nodes[(q.begin + k - 1) % q.size]]

QueueIsFifo ==
  (qpc = "ok" /\ cap >= 1) =>
    /\ got = expected
    /\ queue_empty(q) <=> held = <<>>
    /\ queue_full(q) <=> Len(held) = cap
    /\ RingContents = held

QueueWrapWitness ==
  /\ qpc = "ok"
  /\ cap >= 2
  /\ q.end < q.begin
  /\ queue_full(q)
  /\ got # -1

\* C5: an Epidemic is built only from seeds that are distinct and in [0,n)
\* and with 0 < p <= 1; no built Epidemic has a node enqueued twice or
\* num_infected above the number of distinct seeds.
ConstructionRejectsBadInput ==
  Built =>
    /\ 0 < p.num /\ p.num <= p.den
    /\ \A k \in DOMAIN ic.infected : ic.infected[k] \in Nodes(g.n)
    /\ \A a, b \in DOMAIN ic.infected : a # b => ic.infected[a] # ic.infected[b]
    /\ \A v \in SeedSet : Times(pushed, v) <= 1
    /\ epidemic.num_infected <= Cardinality(SeedSet)

\* C6: queue_new(size) with size <= 0 yields no queue.
QueueNewRejectsNonPositive ==
  qpc = "ok" => cap > 0

\* C7: with p = 1 and stop = MaxTime (MaxDepth), at the return of
\* epidemic_run a node is infected iff it is within bound arcs of the seeds,
\* and its infection time is its distance from the seeds plus 1; on the line
\* graph with seed 0 and bound 2 the times are 1, 2, 3, 0, 0.
MaxDepthIsBoundedBfs ==
  (pc = "done" /\ p = One /\ ic.stop_criterion = "MaxTime") =>
    /\ \A v \in Nodes(g.n) :
         /\ epidemic.infected[v] > 0 <=>
              v \in Within(g, SeedSet, IF ic.bound < g.n THEN ic.bound ELSE g.n)
         /\ epidemic.infected[v] > 0 => epidemic.infected[v] = Dist(g, SeedSet, v) + 1
    /\ TheConfig = Scenario1 =>
         epidemic.infected = [x \in Nodes(5) |-> IF x <= 2 THEN x + 1 ELSE 0]

MaxDepthCutWitness ==
  /\ pc = "done"
  /\ TheConfig = Scenario1
  /\ exit = "maxdepth"
  /\ epidemic.num_infected = 3

\* C8: under stop = NumInfected (MaxSize) num_infected never exceeds bound,
\* and no arc is tried once num_infected has reached bound.
MaxSizeNeverExceeded ==
  (Built /\ ic.stop_criterion = "NumInfected") =>
    /\ epidemic.num_infected <= ic.bound
    /\ pc = "arcs" => epidemic.num_infected < ic.bound

\* C9 as stated: the star scenario ends with three trace records, all at
\* step 1, each to a newly infected target, and num_infected = 3.
StarEmitsThreeRecords ==
  (pc = "done" /\ TheConfig = Scenario3) =>
    /\ Len(trace) = 3
    /\ \A k \in DOMAIN trace : trace[k][1] = 1 /\ epidemic.infected[trace[k][3]] = 2
    /\ \A a, b \in DOMAIN trace : a # b => trace[a][3] # trace[b][3]
    /\ exit = "maxsize"
    /\ epidemic.num_infected = 3

\* C9 amended: the star scenario ends on the MaxSize return with exactly two
\* trace records, (1,0,1) and (1,0,2), each to a newly infected target, and
\* num_infected = 3 (the seed and the two targets).
StarEmitsTwoRecords ==
  (pc = "done" /\ TheConfig = Scenario3) =>
    /\ trace = << <<1, 0, 1, 3>>, <<1, 0, 2, 3>> >>
    /\ epidemic.infected = [x \in Nodes(5) |-> IF x = 0 THEN 1 ELSE IF x <= 2 THEN 2 ELSE 0]
    /\ exit = "maxsize"
    /\ epidemic.num_infected = 3

StarDoneWitness ==
  /\ pc = "done"
  /\ TheConfig = Scenario3
  /\ exit = "maxsize"

\* C10 as stated: the triangle scenario emits (1,0,1), (1,0,2), (2,1,2) and
\* ends with num_infected = 3 and cascade_links = 3.
TriangleCountsThreeLinks ==
  (pc = "done" /\ TheConfig = Scenario4) =>
    /\ trace = << <<1, 0, 1, 4>>, <<1, 0, 2, 4>>, <<2, 1, 2, 4>> >>
    /\ epidemic.num_infected = 3
    /\ epidemic.cascade_links = 3

\* C10 amended: the triangle scenario emits (1,0,1), (1,0,2), (2,1,2) and
\* ends with num_infected = 3 and cascade_links = 2: the third record is
\* written but not counted, node 2 having infection time 2 = t, not t + 1.
TriangleCountsTwoLinks ==
  (pc = "done" /\ TheConfig = Scenario4) =>
    /\ trace = << <<1, 0, 1, 4>>, <<1, 0, 2, 4>>, <<2, 1, 2, 4>> >>
    /\ epidemic.num_infected = 3
    /\ epidemic.cascade_links = 2

TriangleDoneWitness ==
  /\ pc = "done"
  /\ TheConfig = Scenario4
  /\ Len(trace) = 3

\* C11 as stated: with or without a sink, cascade_links is at most the
\* number of records the run has written.
LinksAtMostRecords ==
  Built => epidemic.cascade_links <= Len(trace)

\* C11 amended: with a sink, cascade_links is at most the number of records
\* written so far; without one nothing is written, whatever cascade_links is.
LinksAtMostRecordsWithSink ==
  Built =>
    /\ output => epidemic.cascade_links <= Len(trace)
    /\ ~output => trace = <<>>

LinksBelowRecordsWitness ==
  /\ pc = "done"
  /\ output
  /\ 0 < epidemic.cascade_links
  /\ epidemic.cascade_links < Len(trace)

\* The number of arcs of the graph.
ArcCount(gr) == Cardinality({ a \in Nodes(gr.n) \X (1..gr.n) : a[2] <= gr.degrees[a[1]] })

\* C12: no arc (u, v) is tried twice, so none is traced twice; what is tried
\* or traced is an arc of the graph. (The adjacency lists of the model name
\* no neighbour twice.)
ArcTracedAtMostOnce ==
  Built =>
    /\ \A a, b \in DOMAIN trials :
         a # b => <<trials[a].u, trials[a].v>> # <<trials[b].u, trials[b].v>>
    /\ \A a, b \in DOMAIN trace :
         a # b => <<trace[a][2], trace[a][3]>> # <<trace[b][2], trace[b][3]>>
    /\ \A a \in DOMAIN trace :
         \E j \in 1..g.degrees[trace[a][2]] : g.links[trace[a][2]][j] = trace[a][3]

EveryArcTracedWitness ==
  /\ pc = "done"
  /\ g = Cycle3
  /\ Len(trace) = ArcCount(g)

\* The nodes dequeued so far.
Dequeued ==
  IF Built THEN { pushed[k] : k \in 1..epidemic.active.begin } ELSE {}

\* The work a run has left at most: a dequeue and one trial per out-arc for
\* every node not yet dequeued, the arcs of u not yet tried, the return, and
\* the construction.
Measure ==
  Cardinality({ a \in (Nodes(g.n) \ Dequeued) \X (0..g.n) : a[2] <= g.degrees[a[1]] })
    + (IF pc = "arcs" THEN g.degrees[u] - i ELSE 0)
    + (IF pc = "new" THEN 2 ELSE IF pc \in {"loop", "arcs"} THEN 1 ELSE 0)

\* The three ways epidemic_run returns.
EndsByRule ==
  /\ exit \in {"maxdepth", "maxsize", "empty"}
  /\ exit = "maxdepth" =>
       epidemic.stop_criterion = "MaxTime" /\ epidemic.bound < t
  /\ exit = "maxsize" =>
       epidemic.stop_criterion = "NumInfected" /\ epidemic.bound = epidemic.num_infected
  /\ exit = "empty" => queue_empty(epidemic.active)

\* The run has a step to take: EpidemicNew asks for pc = "new" alone, RunPop
\* for pc = "loop" alone, RunTrial for pc = "arcs" and an arc i of u.
CanStep ==
  /\ pc \in {"new", "loop", "arcs"}
  /\ pc = "arcs" => i < g.degrees[u]

\* C17: every step of a run takes from the work left, which is finite and
\* never negative, cycles and self-loops included; the run has a next step
\* until it returns, so it does return; and it returns only by the MaxDepth
\* exit (the dequeued node is beyond the bound), by the MaxSize exit (the
\* count is the bound), or on the empty frontier.
RunTerminatesByRule ==
  /\ [][Measure' < Measure]_vars
  /\ [](Measure >= 0)
  /\ [](pc \in {"new", "loop", "arcs", "done"})
  /\ [](pc # "done" => CanStep)
  /\ [](pc = "done" => EndsByRule)

CycleRunEndsWitness ==
  /\ pc = "done"
  /\ exit = "empty"
  /\ g = Cycle3
  /\ epidemic.active.begin = g.n
  /\ Len(trials) = ArcCount(g)

\* The successful trial k met a target that had the time t + 1 already.
AlreadyAtNextStep(k) ==
  /\ trials[k].ok
  /\ epidemic.infected[trials[k].v] = trials[k].t + 1
  /\ \E j \in 1..(k - 1) : trials[j].ok /\ trials[j].v = trials[k].v

\* The records of the successful trials, in the order of the trials.
SuccessRecords ==
  LET ok == SelectSeq(trials, LAMBDA x : x.ok)
  IN  [k \in 1..Len(ok) |-> <<ok[k].t, ok[k].u, ok[k].v, epidemic.id>>]

\* C18: cascade_links is the number of non-seed infections plus the number
\* of successful trials whose target already had the time t + 1; with a sink
\* every successful trial is on the trace, counted or not.
LinksAreInfectionsAndCoInfections ==
  Built =>
    /\ epidemic.cascade_links =
         (epidemic.num_infected - ic.num_infected)
           + Cardinality({ k \in DOMAIN trials : AlreadyAtNextStep(k) })
    /\ output => trace = SuccessRecords

CoInfectionAndUncountedWitness ==
  /\ pc = "done"
  /\ output
  /\ \E k \in DOMAIN trials : AlreadyAtNextStep(k)
  /\ \E k \in DOMAIN trials :
       trials[k].ok /\ epidemic.infected[trials[k].v] <= trials[k].t
  /\ epidemic.cascade_links < Len(trace)

\* The frontier: the nodes in the queue, oldest first.
Frontier(e) ==
  [k \in 1..((e.active.end - e.active.begin + e.active.size) % e.active.size) |->
     e.active.nodes[(e.active.begin + k - 1) % e.active.size]]

\* What C20 asks of a state of the run.
InStepOrder ==
  /\ Frontier(epidemic) = SubSeq(pushed, epidemic.active.begin + 1, Len(pushed))
  /\ \A a, b \in DOMAIN pushed :
       a < b => epidemic.infected[pushed[a]] <= epidemic.infected[pushed[b]]
  /\ \A a, b \in DOMAIN trials : a < b => trials[a].t <= trials[b].t
  /\ \A a, b \in DOMAIN trace : a < b => trace[a][1] <= trace[b][1]
  /\ exit = "maxdepth" =>
       \A k \in DOMAIN Frontier(epidemic) :
         epidemic.infected[Frontier(epidemic)[k]] > epidemic.bound
  /\ epidemic.stop_criterion = "MaxTime" =>
       /\ \A a \in DOMAIN trials : trials[a].t <= epidemic.bound
       /\ \A a \in DOMAIN trace : trace[a][1] <= epidemic.bound

\* C20: nodes leave the queue in the order they entered it, which is by
\* non-decreasing infection time: the time t of the dequeued node never
\* decreases from one dequeue to the next, nor does the t of the trials and
\* of the trace; after the MaxDepth exit every node still in the frontier has
\* a time beyond the bound, and under MaxDepth no trial and no record has t
\* beyond the bound.
StepsNeverDecrease ==
  /\ [][Built => t' >= t]_vars
  /\ [](Built => InStepOrder)

MaxDepthLeavesFrontierWitness ==
  /\ pc = "done"
  /\ exit = "maxdepth"
  /\ Len(Frontier(epidemic)) > 0
  /\ \E a \in DOMAIN trace : trace[a][1] = epidemic.bound

\* The second run has returned.
BothDone == pc = "done" /\ ref.phase = "second"

SameInfected ==
  /\ epidemic.num_infected = ref.num_infected
  /\ InfectedNodes = { v \in DOMAIN ref.infected : ref.infected[v] > 0 }

\* C13 as stated: whatever the graph, p, the stop rule and the bound, the run
\* on the reordered seeds that replays the same outcomes ends with the same
\* infected nodes and the same num_infected.
SeedOrderNeverMatters ==
  BothDone => SameInfected

\* C13 amended: with p = 1 and the MaxTime (MaxDepth) rule the run on the
\* reordered seeds ends with the same infected nodes, the same num_infected
\* and the same records on the trace, in whatever order.
SeedOrderIrrelevantForFullBfs ==
  (BothDone /\ p = One /\ ic.stop_criterion = "MaxTime") =>
    /\ SameInfected
    /\ { trace[k] : k \in DOMAIN trace } = { ref.trace[k] : k \in DOMAIN ref.trace }

ReorderedRunWitness ==
  /\ BothDone
  /\ p = One
  /\ ic.stop_criterion = "MaxTime"
  /\ exit = "maxdepth"
  /\ epidemic.num_infected > ic.num_infected
  /\ Len(trace) > 1
  /\ trace # ref.trace

\* C19: when ic_infect_randomly has returned, the initial condition holds
\* num_infected pairwise distinct node ids of [0, total_nodes).
RandomSeedsAreDistinct ==
  pick.pc = "done" =>
    /\ Len(ic.infected) = ic.num_infected
    /\ \A a \in DOMAIN ic.infected : ic.infected[a] \in Nodes(pick.total_nodes)
    /\ \A a, b \in DOMAIN ic.infected : a # b => ic.infected[a] # ic.infected[b]

\* The epidemic and the trials of worker w.
WorkerEpidemic(w) == IF w = par.cur THEN epidemic ELSE par.saved[w].epidemic

WorkerTrials(w) == IF w = par.cur THEN trials ELSE par.saved[w].trials

\* Worker w is inside epidemic_run, or has just left it.
Running(w) == WorkerPc(w) \in {"loop", "arcs", "done"}

\* The lines of a sink that carry the id.
OwnLines(sink, id) == SelectSeq(sink, LAMBDA r : r[4] = id)

\* Lines of two epidemics alternate on the sink.
Interleaved(sink) ==
  \E a, b, c \in DOMAIN sink :
    a < b /\ b < c /\ sink[a][4] = sink[c][4] /\ sink[a][4] # sink[b][4]

\* C14: every element of the shared sink is one whole record of one of the
\* epidemics, and the records of each epidemic, running or finished, are on
\* the sink in the order its run wrote them, whichever worker ran when.
SinkKeepsEachRunInOrder ==
  par.phase \in {"region", "closed"} =>
    /\ \A k \in DOMAIN trace :
         /\ Len(trace[k]) = 4
         /\ \E j \in DOMAIN par.input : trace[k][4] = par.input[j].id
    /\ \A w \in 1..par.threads :
         Running(w) =>
           OwnLines(trace, WorkerEpidemic(w).id)
             = RecordsOf(WorkerTrials(w), WorkerEpidemic(w).id)
    /\ \A j \in DOMAIN par.result :
         par.result[j].done => OwnLines(trace, par.input[j].id) = par.result[j].emitted
    /\ par.phase = "closed" => par.sink = trace

InterleavedSinkWitness ==
  /\ par.phase = "closed"
  /\ par.threads = 2
  /\ Interleaved(trace)

\* C15: every index is run at most once while the region lasts and exactly
\* once when it has ended, by one worker; ic_clean(ic + j) is done at most
\* once, after the run of j has finished, and exactly once at the end; a
\* worker about to read ic[j] finds it as it was loaded; and the sink is
\* closed only when every worker is at the end of the region.
EachIndexRunAndCleanedOnce ==
  par.phase # "none" =>
    /\ \A j \in DOMAIN par.runs :
         /\ par.runs[j] <= 1
         /\ par.cleaned[j] <= 1
         /\ par.result[j].done => par.runs[j] = 1
         /\ par.cleaned[j] = 1 => par.result[j].done
    /\ \A w \in 1..par.threads :
         (par.phase = "region" /\ WorkerPc(w) \in {"head", "new"}) =>
           /\ par.cleaned[par.j[w] + 1] = 0
           /\ IcAt(par.j[w]) = par.input[par.j[w] + 1]
    /\ (par.phase = "region" /\ pc \in {"head", "new"}) =>
         ic = par.input[par.j[par.cur] + 1]
    /\ \A w, x \in 1..par.threads :
         (w # x /\ WorkerPc(w) \notin {"idle", "end"} /\ WorkerPc(x) \notin {"idle", "end"})
           => par.j[w] # par.j[x]
    /\ par.phase \in {"closed", "solo"} =>
         /\ \A j \in DOMAIN par.runs :
              par.runs[j] = 1 /\ par.cleaned[j] = 1 /\ par.result[j].done
         /\ \A w \in 1..par.threads : par.saved[w].pc \in {"end", "run"}
    /\ par.phase = "closed" => \A w \in 1..par.threads : WorkerPc(w) = "end"

TwoWorkersInTheirRunsWitness ==
  /\ par.phase = "region"
  /\ par.threads = 2
  /\ WorkerPc(1) = "arcs"
  /\ WorkerPc(2) = "clean"
  /\ par.cleaned[par.j[1] + 1] = 0
  /\ par.result[par.j[2] + 1].done

\* C16: the run of epidemic j alone, on the outcomes j consumed in the
\* region, ends with the infection times, num_infected, cascade_links and
\* last step t that j ended with in the region, and writes the lines that j
\* has on the shared sink, in the same order.
SoloRunAgrees ==
  (par.phase = "solo" /\ pc = "done") =>
    /\ epidemic.infected = par.result[par.solo].infected
    /\ epidemic.num_infected = par.result[par.solo].num_infected
    /\ epidemic.cascade_links = par.result[par.solo].cascade_links
    /\ epidemic.t = par.result[par.solo].t
    /\ Outcomes(trials) = par.result[par.solo].outcomes
    /\ trace = OwnLines(par.sink, epidemic.id)

SoloAfterInterleavedRegionWitness ==
  /\ par.phase = "solo"
  /\ pc = "done"
  /\ par.threads = 2
  /\ Interleaved(par.sink)
  /\ Len(trace) >= 2

====
